---- MODULE Spec2Model ----
(***************************************************************************)
(* Model of launch_ec2_lambda.py: module initialisation (environment       *)
(* validation, boot-script template) and lambda_handler (one               *)
(* ec2.run_instances call per S3 notification record).                     *)
(*                                                                         *)
(* Strings are sequences of one-character strings.  Fixed script text     *)
(* that contains no brace and no text `PROOF_DIR="' is carried as a single *)
(* opaque element (ScriptHead, ScriptBody).  A Python value that may be    *)
(* None is a sequence of length 0 (None) or 1 (the value).                 *)
(***************************************************************************)
EXTENDS Integers, Sequences, FiniteSets, TLC

VARIABLES
    env,                  \* os.environ: variable name -> None or Some(string)
    phase,                \* "init" | "ready" | "failed" (module import)
    AMI_ID, INSTANCE_TYPE, IAM_INSTANCE_PROFILE, S3_BUCKET,
    AWS_ACCOUNT_ID, TARGET_REGION, EC2_KEY_NAME,      \* module globals
    missing_vars,         \* module global
    user_data_template,   \* module global
    pc,                   \* lambda_handler: "idle" | "loop" | "returned" | "raised"
    event,                \* event['Records'] of the current invocation
    idx,                  \* 1-based index of the record the loop is at
    launched_instances,   \* local list of lambda_handler
    key, proof_dir, user_data,   \* locals of the latest loop iteration
    result,               \* value returned by the latest invocation, or None
    error,                \* exception that ended module import / the invocation
    calls,                \* requests received by EC2 in the current invocation
    instances,            \* identifiers of the instances that exist in EC2
    invocations,          \* number of invocations started
    received,             \* number of records delivered over all invocations
    failures,             \* number of invocations that ended in an exception
    instances_before      \* instances at the start of the current invocation

config == <<AMI_ID, INSTANCE_TYPE, IAM_INSTANCE_PROFILE, S3_BUCKET,
            AWS_ACCOUNT_ID, TARGET_REGION, EC2_KEY_NAME>>
module == <<env, phase, config, missing_vars, user_data_template>>
locals == <<key, proof_dir, user_data>>
handler == <<pc, event, idx, launched_instances, locals, result>>
ec2 == <<calls, instances>>
ghost == <<invocations, received, failures, instances_before>>
vars == <<module, handler, error, ec2, ghost>>

----------------------------------------------------------------------------
(* Bounds *)
MaxRecords == 3
MaxInvocations == 2
MaxKeyAtoms == 3

----------------------------------------------------------------------------
(* Values *)
None == <<>>
Some(v) == <<v>>

\* Python truthiness of an Optional[str]: None and '' are falsy
Truthy(v) == v /= None /\ v[1] /= <<>>

\* str(v) inside an f-string
Str(v) == IF v = None THEN <<"N","o","n","e">> ELSE v[1]

NoError == [kind |-> "none", names |-> <<>>]

RequiredNames == <<"AMI_ID", "INSTANCE_TYPE", "IAM_INSTANCE_PROFILE",
                   "S3_BUCKET", "AWS_ACCOUNT_ID", "TARGET_REGION">>
EnvNames == {RequiredNames[i] : i \in 1..Len(RequiredNames)} \cup {"EC2_KEY_NAME"}

Placeholder == <<"{","{","P","R","O","O","F","_","D","I","R","}","}">>

ScriptHead == <<"#!/bin/bash\nset -euo pipefail\n\n">>
ScriptBody == <<"USER_PROOFS_ALWAYS=... aws ec2 terminate-instances ...\n">>

----------------------------------------------------------------------------
(* String functions of Python used by the program *)

RECURSIVE Replace(_, _, _)
\* s.replace(old, new), old non-empty: leftmost non-overlapping occurrences
Replace(s, old, new) ==
    IF Len(s) < Len(old) THEN s
    ELSE IF SubSeq(s, 1, Len(old)) = old
         THEN new \o Replace(SubSeq(s, Len(old) + 1, Len(s)), old, new)
         ELSE <<s[1]>> \o Replace(Tail(s), old, new)

RECURSIVE Split(_, _)
\* s.split(sep) for a one-character sep: always at least one part
Split(s, sep) ==
    IF \A i \in 1..Len(s) : s[i] /= sep THEN <<s>>
    ELSE LET i == CHOOSE j \in 1..Len(s) :
                    s[j] = sep /\ \A h \in 1..(j - 1) : s[h] /= sep
         IN <<SubSeq(s, 1, i - 1)>> \o Split(SubSeq(s, i + 1, Len(s)), sep)

RECURSIVE Join(_, _)
\* sep.join(parts)
Join(parts, sep) ==
    IF parts = <<>> THEN <<>>
    ELSE IF Len(parts) = 1 THEN parts[1]
    ELSE parts[1] \o <<sep>> \o Join(Tail(parts), sep)

\* parts[:-1]
AllButLast(parts) == SubSeq(parts, 1, Len(parts) - 1)

----------------------------------------------------------------------------
(* Module initialisation, lines 4-146 *)

EnvGet(name) == env[name]

RECURSIVE Filter(_, _)
Filter(names, vals) ==
    IF names = <<>> THEN <<>>
    ELSE (IF Truthy(vals[names[1]]) THEN <<>> ELSE <<names[1]>>)
         \o Filter(Tail(names), vals)

\* "is None" in place of "not var_value"
MissingVarsNoneOnly(required_vars) ==
    SelectSeq(RequiredNames, LAMBDA n : required_vars[n] = None)

\* [var_name for var_name, var_value in required_vars.items() if not var_value]
MissingVars(required_vars) == Filter(RequiredNames, required_vars)

\* the f-string of lines 29-146 ({{{{ }}}} renders as {{ }})
UserDataTemplate(bucket, region) ==
    ScriptHead
    \o <<"S","3","_","B","U","C","K","E","T","=","\"">> \o Str(bucket) \o <<"\"", "\n">>
    \o <<"P","R","O","O","F","_","D","I","R","=","\"">> \o Placeholder \o <<"\"", "\n">>
    \o <<"R","E","G","I","O","N","=","\"">> \o Str(region) \o <<"\"", "\n">>
    \o ScriptBody

\* the check of lines 25-27 left out: the import always succeeds
LoadModuleUnchecked ==
    /\ phase = "init"
    /\ AMI_ID' = EnvGet("AMI_ID")
    /\ INSTANCE_TYPE' = EnvGet("INSTANCE_TYPE")
    /\ IAM_INSTANCE_PROFILE' = EnvGet("IAM_INSTANCE_PROFILE")
    /\ S3_BUCKET' = EnvGet("S3_BUCKET")
    /\ AWS_ACCOUNT_ID' = EnvGet("AWS_ACCOUNT_ID")
    /\ TARGET_REGION' = EnvGet("TARGET_REGION")
    /\ EC2_KEY_NAME' = EnvGet("EC2_KEY_NAME")
    /\ missing_vars' = MissingVars([n \in EnvNames \ {"EC2_KEY_NAME"} |-> EnvGet(n)])
    /\ phase' = "ready"
    /\ error' = NoError
    /\ user_data_template' = UserDataTemplate(S3_BUCKET', TARGET_REGION')
    /\ UNCHANGED <<env, handler, ec2, ghost>>

\* import of the module: lines 4-146
LoadModule ==
    /\ phase = "init"
    /\ AMI_ID' = EnvGet("AMI_ID")
    /\ INSTANCE_TYPE' = EnvGet("INSTANCE_TYPE")
    /\ IAM_INSTANCE_PROFILE' = EnvGet("IAM_INSTANCE_PROFILE")
    /\ S3_BUCKET' = EnvGet("S3_BUCKET")
    /\ AWS_ACCOUNT_ID' = EnvGet("AWS_ACCOUNT_ID")
    /\ TARGET_REGION' = EnvGet("TARGET_REGION")
    /\ EC2_KEY_NAME' = EnvGet("EC2_KEY_NAME")
    /\ missing_vars' = MissingVars([n \in EnvNames \ {"EC2_KEY_NAME"} |-> EnvGet(n)])
    /\ IF missing_vars' /= <<>>
       THEN \* raise ValueError: the import fails, lambda_handler is never defined
            /\ phase' = "failed"
            /\ error' = [kind |-> "ValueError", names |-> missing_vars']
            /\ UNCHANGED user_data_template
       ELSE /\ phase' = "ready"
            /\ error' = NoError
            /\ user_data_template' = UserDataTemplate(S3_BUCKET', TARGET_REGION')
    /\ UNCHANGED <<env, handler, ec2, ghost>>

----------------------------------------------------------------------------
(* EC2 *)

\* identifiers EC2 gives to n new instances
NewInstanceIds(n) == (Cardinality(instances) + 1)..(Cardinality(instances) + n)

----------------------------------------------------------------------------
(* lambda_handler, lines 148-190 *)

\* key.split('/')[0]: the first segment in place of all but the last
ProofDirFirstSegment(k) == Split(k, "/")[1]

\* '/'.join(key.split('/')[:-1])
ProofDir(k) == Join(AllButLast(Split(k, "/")), "/")

\* replaces '{PROOF_DIR}', leaving the outer braces
RenderSingleBrace(template, dir) ==
    Replace(template, SubSeq(Placeholder, 2, Len(Placeholder) - 1), dir)

\* user_data_template.replace('{{PROOF_DIR}}', proof_dir)
Render(template, dir) == Replace(template, Placeholder, dir)

BaseParams(data) ==
    [ImageId |-> Str(AMI_ID),
     InstanceType |-> Str(INSTANCE_TYPE),
     IamInstanceProfile |-> [Name |-> Str(IAM_INSTANCE_PROFILE)],
     UserData |-> data,
     MinCount |-> 1,
     MaxCount |-> 1]

\* "if EC2_KEY_NAME is not None" in place of "if EC2_KEY_NAME"
RunParamsKeyIfNotNone(data) ==
    IF EC2_KEY_NAME /= None
    THEN [n \in DOMAIN BaseParams(data) \cup {"KeyName"} |->
            IF n = "KeyName" THEN Str(EC2_KEY_NAME) ELSE BaseParams(data)[n]]
    ELSE BaseParams(data)

\* MaxCount taken from the size of the batch
RunParamsBatchCount(data) ==
    [BaseParams(data) EXCEPT !.MaxCount = Len(event)]

\* run_params, lines 164-175
RunParams(data) ==
    IF Truthy(EC2_KEY_NAME)
    THEN [n \in DOMAIN BaseParams(data) \cup {"KeyName"} |->
            IF n = "KeyName" THEN Str(EC2_KEY_NAME) ELSE BaseParams(data)[n]]
    ELSE BaseParams(data)

\* lambda_handler is called with a batch of records
InvokeWith(ev) ==
    /\ phase = "ready"
    /\ pc \in {"idle", "returned", "raised"}
    /\ invocations < MaxInvocations
    /\ pc' = "loop"
    /\ event' = ev
    /\ idx' = 1
    /\ launched_instances' = <<>>
    /\ key' = <<>> /\ proof_dir' = <<>> /\ user_data' = <<>>
    /\ result' = None
    /\ error' = NoError
    /\ calls' = <<>>
    /\ invocations' = invocations + 1
    /\ received' = received + Len(ev)
    /\ instances_before' = instances
    /\ UNCHANGED <<module, instances, failures>>

\* a record whose key is already in the batch is skipped
LaunchSucceededOnce(run_params) ==
    /\ IF \E j \in 1..(idx - 1) : event[j].key = event[idx].key
       THEN UNCHANGED <<calls, instances, launched_instances>>
       ELSE /\ calls' = Append(calls, [op |-> "run_instances", params |-> run_params,
                                       ok |-> TRUE, id |-> Cardinality(instances) + 1])
            /\ instances' = instances \cup {Cardinality(instances) + 1}
            /\ launched_instances' = Append(launched_instances, Cardinality(instances) + 1)
    /\ idx' = idx + 1
    /\ UNCHANGED <<module, pc, event, result, error, ghost>>

\* the rendered script is stored back into the module-level template
LaunchSucceededKeepsRender(run_params) ==
    /\ \E n \in run_params.MinCount..run_params.MaxCount :
         LET ids == NewInstanceIds(n)
             instance_id == Cardinality(instances) + 1
         IN /\ calls' = Append(calls, [op |-> "run_instances", params |-> run_params,
                                       ok |-> TRUE, id |-> instance_id])
            /\ instances' = instances \cup ids
            /\ launched_instances' = Append(launched_instances, instance_id)
    /\ idx' = idx + 1
    /\ user_data_template' = run_params.UserData
    /\ UNCHANGED <<env, phase, config, missing_vars, pc, event, result, error, ghost>>

\* ec2.run_instances succeeds: lines 177-181
LaunchSucceeded(run_params) ==
    /\ \E n \in run_params.MinCount..run_params.MaxCount :
         LET ids == NewInstanceIds(n)
             \* response['Instances'][0]['InstanceId']
             instance_id == Cardinality(instances) + 1
         IN /\ calls' = Append(calls, [op |-> "run_instances", params |-> run_params,
                                       ok |-> TRUE, id |-> instance_id])
            /\ instances' = instances \cup ids
            /\ launched_instances' = Append(launched_instances, instance_id)
    /\ idx' = idx + 1
    /\ UNCHANGED <<module, pc, event, result, error, ghost>>

\* the exception is logged and swallowed, the loop goes on
LaunchFailedContinue(run_params) ==
    /\ calls' = Append(calls, [op |-> "run_instances", params |-> run_params,
                               ok |-> FALSE, id |-> 0])
    /\ idx' = idx + 1
    /\ UNCHANGED <<module, pc, event, launched_instances, result, error,
                   instances, ghost>>

\* the instances launched so far are terminated before the exception is re-raised
LaunchFailedRollback(run_params) ==
    /\ calls' = Append(calls, [op |-> "run_instances", params |-> run_params,
                               ok |-> FALSE, id |-> 0])
    /\ instances' = instances \ {launched_instances[j] : j \in 1..Len(launched_instances)}
    /\ pc' = "raised"
    /\ error' = [kind |-> "ClientError", names |-> <<>>]
    /\ failures' = failures + 1
    /\ UNCHANGED <<module, event, idx, launched_instances, result,
                   invocations, received, instances_before>>

\* ec2.run_instances raises: lines 183-185
LaunchFailed(run_params) ==
    /\ calls' = Append(calls, [op |-> "run_instances", params |-> run_params,
                               ok |-> FALSE, id |-> 0])
    /\ pc' = "raised"
    /\ error' = [kind |-> "ClientError", names |-> <<>>]
    /\ failures' = failures + 1
    /\ UNCHANGED <<module, event, idx, launched_instances, result, instances,
                   invocations, received, instances_before>>

\* one iteration of the loop: lines 151-185
ProcessRecord ==
    /\ phase = "ready"
    /\ pc = "loop"
    /\ idx <= Len(event)
    /\ key' = event[idx].key
    /\ proof_dir' = ProofDir(key')
    /\ user_data' = Render(user_data_template, proof_dir')
    /\ \/ LaunchSucceeded(RunParams(user_data'))
       \/ LaunchFailed(RunParams(user_data'))

\* the loop is over: lines 187-190
Return ==
    /\ phase = "ready"
    /\ pc = "loop"
    /\ idx > Len(event)
    /\ pc' = "returned"
    /\ result' = Some([statusCode |-> 200,
                       body |-> [count |-> Len(launched_instances),
                                 ids |-> launched_instances]])
    /\ UNCHANGED <<module, event, idx, launched_instances, locals, error, ec2, ghost>>

----------------------------------------------------------------------------
(* Inputs *)

\* values of the environment variables
EnvValue(name) ==
    CASE name = "AMI_ID" -> <<"a","m","i","-","1">>
      [] name = "INSTANCE_TYPE" -> <<"c","5",".","m","e","t","a","l">>
      [] name = "IAM_INSTANCE_PROFILE" -> <<"p","r","o","f">>
      [] name = "S3_BUCKET" -> <<"b","k","t">>
      [] name = "AWS_ACCOUNT_ID" -> <<"1","2","3">>
      [] name = "TARGET_REGION" -> <<"u","s","-","1">>
      [] name = "EC2_KEY_NAME" -> <<"m","y","k","e","y">>

\* every variable absent, empty or set
Envs == [EnvNames -> {"absent", "empty", "set"}]

EnvOf(shape) ==
    [n \in EnvNames |->
        CASE shape[n] = "absent" -> None
          [] shape[n] = "empty" -> Some(<<>>)
          [] shape[n] = "set" -> Some(EnvValue(n))]

ExampleKey == <<"p","r","o","o","f","-","r","u","n","s","/","2","0","2","4","-","0","1","-","1","5","/","p","r","i","v","a","t","e","_","l","e","d","g","e","r",".","j","s","o","n">>
ExampleDir == <<"p","r","o","o","f","-","r","u","n","s","/","2","0","2","4","-","0","1","-","1","5">>
LedgerKey == <<"l","e","d","g","e","r",".","j","s","o","n">>
D1Key == <<"d","1","/","f">>

BatchKeys == {ExampleKey, LedgerKey}
BatchBuckets == {<<"b","k","t">>, <<"o","t","h","e","r">>}
BatchRecords == [bucket : BatchBuckets, key : BatchKeys]
Batches == UNION {[1..n -> BatchRecords] : n \in 0..MaxRecords}

StartState ==
    /\ phase = "init"
    /\ AMI_ID = None /\ INSTANCE_TYPE = None /\ IAM_INSTANCE_PROFILE = None
    /\ S3_BUCKET = None /\ AWS_ACCOUNT_ID = None /\ TARGET_REGION = None
    /\ EC2_KEY_NAME = None
    /\ missing_vars = <<>>
    /\ user_data_template = <<>>
    /\ pc = "idle"
    /\ event = <<>>
    /\ idx = 1
    /\ launched_instances = <<>>
    /\ key = <<>> /\ proof_dir = <<>> /\ user_data = <<>>
    /\ result = None
    /\ error = NoError
    /\ calls = <<>>
    /\ instances = {}
    /\ invocations = 0
    /\ received = 0
    /\ failures = 0
    /\ instances_before = {}

Init ==
    /\ env \in {EnvOf(shape) : shape \in Envs}
    /\ StartState

Invoke == \E ev \in Batches : InvokeWith(ev)

Next == LoadModule \/ Invoke \/ ProcessRecord \/ Return

Spec == Init /\ [][Next]_vars

----------------------------------------------------------------------------
(* Second specification: one-record batches over a larger space of keys   *)
(* and of bucket / region values, for the string functions.               *)

KeyAtoms == {<<"a">>, <<"/">>, Placeholder, <<"D","I","R","}","}">>}

RECURSIVE Flatten(_)
Flatten(ss) == IF ss = <<>> THEN <<>> ELSE ss[1] \o Flatten(Tail(ss))

RenderKeys ==
    {Flatten(as) : as \in UNION {[1..n -> KeyAtoms] : n \in 0..MaxKeyAtoms}}
    \cup {ExampleKey, LedgerKey, D1Key}

RenderEnvs ==
    {[EnvOf([n \in EnvNames |-> "set"])
        EXCEPT !["S3_BUCKET"] = Some(b), !["TARGET_REGION"] = Some(r),
               !["EC2_KEY_NAME"] = k] :
        b \in {EnvValue("S3_BUCKET"), Placeholder,
               <<"{","{","P","R","O","O","F","_">> \o Placeholder},
        r \in {EnvValue("TARGET_REGION"), Placeholder},
        k \in {None, Some(EnvValue("EC2_KEY_NAME"))}}

InitRender ==
    /\ env \in RenderEnvs
    /\ StartState

InvokeRender ==
    \E k \in RenderKeys : InvokeWith(<<[bucket |-> <<"b","k","t">>, key |-> k]>>)

NextRender == LoadModule \/ InvokeRender \/ ProcessRecord \/ Return

RenderSpec == InitRender /\ [][NextRender]_vars

----------------------------------------------------------------------------
(* Properties *)

Contains(s, sub) ==
    \E i \in 0..(Len(s) - Len(sub)) : SubSeq(s, i + 1, i + Len(sub)) = sub

HasSlash(k) == \E i \in 1..Len(k) : k[i] = "/"

\* d is k without its final segment and the separator before that segment
IsDirOf(d, k) ==
    IF HasSlash(k)
    THEN /\ Len(d) < Len(k)
         /\ SubSeq(k, 1, Len(d)) = d
         /\ k[Len(d) + 1] = "/"
         /\ \A i \in (Len(d) + 2)..Len(k) : k[i] /= "/"
    ELSE d = <<>>

DirOf(k) == CHOOSE d \in {SubSeq(k, 1, n) : n \in 0..Len(k)} : IsDirOf(d, k)

\* the text PROOF_DIR="d"
ProofDirLine(d) == <<"P","R","O","O","F","_","D","I","R","=","\"">> \o d \o <<"\"">>

\* the required variables that are absent or empty in the environment
AbsentOrEmpty ==
    {n \in EnvNames \ {"EC2_KEY_NAME"} : env[n] = None \/ env[n] = Some(<<>>)}

Range(f) == {f[i] : i \in DOMAIN f}

KeyConfigured == env["EC2_KEY_NAME"] /= None /\ env["EC2_KEY_NAME"] /= Some(<<>>)

\* the request for key k, written from the environment and the key alone
ExpectedParams(k) ==
    LET data == ScriptHead
                \o <<"S","3","_","B","U","C","K","E","T","=","\"">>
                \o env["S3_BUCKET"][1] \o <<"\"", "\n">>
                \o ProofDirLine(DirOf(k)) \o <<"\n">>
                \o <<"R","E","G","I","O","N","=","\"">>
                \o env["TARGET_REGION"][1] \o <<"\"", "\n">>
                \o ScriptBody
        base == [ImageId |-> env["AMI_ID"][1],
                 InstanceType |-> env["INSTANCE_TYPE"][1],
                 IamInstanceProfile |-> [Name |-> env["IAM_INSTANCE_PROFILE"][1]],
                 UserData |-> data,
                 MinCount |-> 1,
                 MaxCount |-> 1]
    IN IF KeyConfigured
       THEN [n \in DOMAIN base \cup {"KeyName"} |->
               IF n = "KeyName" THEN env["EC2_KEY_NAME"][1] ELSE base[n]]
       ELSE base

\* C1: when the provisioning call fails on record k, exactly k calls have
\* been attempted, the invocation has ended with the error propagated, and
\* no result (not even a partial one) is returned.
C1_FailFast ==
    \A k \in 1..Len(calls) :
        ~calls[k].ok =>
            /\ \A j \in 1..(k - 1) : calls[j].ok
            /\ Len(calls) = k
            /\ idx = k
            /\ pc = "raised"
            /\ error.kind = "ClientError"
            /\ result = None

C1_Witness ==
    /\ pc = "raised" /\ idx = 2 /\ Len(event) = 3 /\ Len(calls) = 2
    /\ calls[1].ok /\ ~calls[2].ok

\* C2: when every provisioning call of a batch of N records succeeds, N
\* requests have been issued, the i-th for the i-th record, each with
\* MinCount = MaxCount = 1, and the result has status 200 and lists the N
\* identifiers returned, in order.
C2_AllSucceed ==
    /\ \A i \in 1..Len(calls) :
          /\ calls[i].op = "run_instances"
          /\ calls[i].params.MinCount = 1
          /\ calls[i].params.MaxCount = 1
          /\ Contains(calls[i].params.UserData, ProofDirLine(DirOf(event[i].key)))
    /\ (pc = "returned" /\ \A i \in 1..Len(calls) : calls[i].ok) =>
          /\ Len(calls) = Len(event)
          /\ result /= None
          /\ result[1].statusCode = 200
          /\ result[1].body.count = Len(event)
          /\ result[1].body.ids = [i \in 1..Len(event) |-> calls[i].id]

C2_Witness ==
    /\ pc = "returned" /\ Len(event) = 3 /\ Len(calls) = 3
    /\ event[1].key /= event[2].key
    /\ result /= None /\ Len(result[1].body.ids) = 3

C2_WitnessEmpty == pc = "returned" /\ Len(event) = 0 /\ result /= None

\* C3: startup succeeds exactly when all six required values are non-empty;
\* otherwise it fails with a ValueError that names exactly the required
\* values that are absent or empty, whatever EC2_KEY_NAME is.
C3_Validation ==
    phase /= "init" =>
        /\ (phase = "ready") <=> (AbsentOrEmpty = {})
        /\ (phase = "failed") <=> (AbsentOrEmpty /= {})
        /\ phase = "failed" =>
              /\ error.kind = "ValueError"
              /\ Range(error.names) = AbsentOrEmpty
              /\ Len(error.names) = Cardinality(AbsentOrEmpty)
        /\ phase = "ready" => error.kind /= "ValueError"

C3_Witness ==
    /\ phase = "failed"
    /\ env["AMI_ID"] = None /\ env["S3_BUCKET"] = Some(<<>>)
    /\ Cardinality(AbsentOrEmpty) = 2
    /\ KeyConfigured
    /\ error.names = <<"AMI_ID", "S3_BUCKET">>

\* C4: validation happens once, at import: a process whose required
\* configuration is missing or empty never starts an invocation, reads no
\* record and issues no request, and a process that passed validation never
\* raises a configuration error in an invocation.
C4_ValidatedOnce ==
    /\ (AbsentOrEmpty /= {} \/ phase /= "ready") =>
          /\ invocations = 0 /\ pc = "idle"
          /\ key = <<>> /\ event = <<>>
          /\ calls = <<>> /\ instances = {}
    /\ invocations > 0 => phase = "ready" /\ error.kind /= "ValueError"

C4_Witness ==
    /\ invocations = 2 /\ phase = "ready" /\ pc = "returned" /\ Len(calls) = 1

\* C5: the proof directory computed for a key is the key without its final
\* path segment and the separator before it; the empty string when the key
\* has no separator; proof-runs/2024-01-15 for the key
\* proof-runs/2024-01-15/private_ledger.json.
C5_ProofDir ==
    calls /= <<>> =>
        /\ key = event[Len(calls)].key
        /\ IsDirOf(proof_dir, key)
        /\ ~HasSlash(key) => proof_dir = <<>>
        /\ key = ExampleKey => proof_dir = ExampleDir

C5_Witness ==
    /\ Len(calls) = 1 /\ key = ExampleKey /\ proof_dir = ExampleDir

C5_WitnessDoubleSlash ==
    /\ Len(calls) = 1 /\ key = <<"a", "/", "/">> /\ proof_dir = <<"a", "/">>

\* C6 as stated: for every proof directory d, the UserData sent contains
\* PROOF_DIR="d" and no occurrence of the placeholder.
C6_Original ==
    \A i \in 1..Len(calls) :
        /\ Contains(calls[i].params.UserData, ProofDirLine(DirOf(event[i].key)))
        /\ ~Contains(calls[i].params.UserData, Placeholder)

\* C6 as amended: for every proof directory d, the UserData sent contains
\* PROOF_DIR="d"; it contains no occurrence of the placeholder when none of
\* d, S3_BUCKET and TARGET_REGION contains the placeholder.
C6_Render ==
    \A i \in 1..Len(calls) :
        /\ Contains(calls[i].params.UserData, ProofDirLine(DirOf(event[i].key)))
        /\ ( /\ ~Contains(DirOf(event[i].key), Placeholder)
             /\ ~Contains(env["S3_BUCKET"][1], Placeholder)
             /\ ~Contains(env["TARGET_REGION"][1], Placeholder) )
           => ~Contains(calls[i].params.UserData, Placeholder)

C6_Witness ==
    /\ Len(calls) = 1 /\ event[1].key = D1Key
    /\ env["S3_BUCKET"] = Some(EnvValue("S3_BUCKET"))
    /\ env["TARGET_REGION"] = Some(EnvValue("TARGET_REGION"))
    /\ Contains(calls[1].params.UserData, ProofDirLine(<<"d", "1">>))
    /\ ~Contains(calls[1].params.UserData, Placeholder)

\* C7: a request carries KeyName exactly when EC2_KEY_NAME is configured
\* (set to a non-empty value), and then KeyName is the configured value.
C7_KeyName ==
    \A i \in 1..Len(calls) :
        /\ ("KeyName" \in DOMAIN calls[i].params) <=> KeyConfigured
        /\ KeyConfigured => calls[i].params.KeyName = env["EC2_KEY_NAME"][1]

C7_Witness ==
    /\ Len(calls) = 2
    /\ env["EC2_KEY_NAME"] = Some(<<"m","y","k","e","y">>)
    /\ calls[2].params.KeyName = <<"m","y","k","e","y">>

C7_WitnessUnset ==
    /\ Len(calls) = 2
    /\ env["EC2_KEY_NAME"] = None
    /\ "KeyName" \notin DOMAIN calls[2].params

\* C8: every successful call creates exactly one instance and nothing is
\* remembered between records or invocations: after invocations that all
\* succeeded the number of instances equals the number of records delivered,
\* also when the same record was delivered twice.
C8_NotIdempotent ==
    /\ Cardinality(instances) =
          Cardinality(instances_before)
          + Cardinality({i \in 1..Len(calls) : calls[i].ok})
    /\ (failures = 0 /\ pc \in {"idle", "returned"}) =>
          Cardinality(instances) = received

C8_Witness ==
    /\ pc = "returned" /\ failures = 0 /\ invocations = 2
    /\ Len(event) = 2 /\ event[1] = event[2]
    /\ Cardinality(instances \ instances_before) = 2
    /\ received > 2

\* C9: the handler issues nothing but run_instances, the set of instances
\* never shrinks, and when an invocation ends with an error at record k the
\* k-1 instances it launched before exist.
C9_NoRollback ==
    /\ [][instances \subseteq instances']_vars
    /\ [](\A i \in 1..Len(calls) : calls[i].op = "run_instances")
    /\ [](pc = "raised" =>
            /\ instances \ instances_before = Range(launched_instances)
            /\ Cardinality(instances \ instances_before) = idx - 1)

C9_Witness ==
    /\ pc = "raised" /\ idx = 3
    /\ Cardinality(instances \ instances_before) = 2
    /\ Range(launched_instances) \subseteq instances

\* C10: the request issued for a record is determined by the environment
\* read at startup and the record's key alone (not by the bucket name or by
\* earlier records), and the configuration and the template stay what the
\* import made them.
C10_DependsOnKeyOnly ==
    phase = "ready" =>
        /\ \A i \in 1..Len(calls) : calls[i].params = ExpectedParams(event[i].key)
        /\ config = <<env["AMI_ID"], env["INSTANCE_TYPE"], env["IAM_INSTANCE_PROFILE"],
                      env["S3_BUCKET"], env["AWS_ACCOUNT_ID"], env["TARGET_REGION"],
                      env["EC2_KEY_NAME"]>>
        /\ Contains(user_data_template, Placeholder)
        /\ \A i \in 1..Len(calls) :
              user_data_template =
                Replace(calls[i].params.UserData,
                        ProofDirLine(DirOf(event[i].key)), ProofDirLine(Placeholder))

C10_Witness ==
    /\ Len(calls) = 3
    /\ event[1].key /= event[3].key /\ event[2].key = event[3].key
    /\ event[2].bucket /= event[3].bucket
    /\ calls[2].params = calls[3].params
    /\ calls[1].params /= calls[3].params

====
